---- MODULE Spec2Model ----
(***************************************************************************)
(* Model of VelomaInstrument (src/app/music/__init__.py): the audio loop   *)
(* thread, the caller thread of start_audio / stop_audio, the hand update  *)
(* path and the SCAMP part they drive.                                     *)
(*                                                                         *)
(* Numbers are fixed point: hand coordinates and volumes in hundredths     *)
(* (0.5 is 50), pitches in hundredths of a semitone (60.0 is 6000).        *)
(* The two threads interleave at the level of Python statements.           *)
(***************************************************************************)
EXTENDS Integers, Sequences, FiniteSets, TLC

VARIABLES
    current_pitch,      \* self.current_pitch
    current_volume,     \* self.current_volume
    target_pitch,       \* self.target_pitch
    target_volume,      \* self.target_volume
    current_notes,      \* self.current_notes: the held note handles
    is_note_playing,    \* self.is_note_playing
    glide_mode,         \* self.glide_mode
    pitch_pool,         \* self.pitch_pool
    start_key,          \* self.start_key
    octave_range,       \* self.octave_range
    pitch_range,        \* self.pitch_range
    scale_name,         \* self.scale_name
    self_pc,            \* self.pc: frames with hands since the last gesture test
    gestures,           \* the forked play_gesture runs: notes each has played
    hand_data,          \* local of update_from_vision, per caller: the hands
    mapped_index,       \* local of update_from_vision, per caller
    interim,            \* which targets hold a value the running frame will overwrite
    settings,           \* argument of the running _update_settings
    should_stop,        \* self.should_stop
    hands_detected,     \* self.hands_detected
    audio_thread,       \* self.audio_thread: "none", "alive" or "dead"
    pc,                 \* position of each thread
    ret,                \* where _stop_current_note returns to, per thread
    iter,               \* the content of the list a thread's for loop iterates
    attached,           \* that list is the object self.current_notes refers to
    idx,                \* position of a thread's for loop
    should_play,        \* local of _audio_loop
    gate_before,        \* should_play of the loop's previous iteration
    branch,             \* what the running iteration of _audio_loop chose
    updFailed,          \* an update raised in the running iteration
    held,               \* self.current_notes when the running iteration chose its branch
    endFailed,          \* note.end() raised in a thread's running sweep
    log,                \* the commands a thread sent in its running tick / call
    live,               \* SCAMP part: notes started and not ended
    nextHandle,         \* SCAMP part: the next note handle
    burstStart,         \* first handle of the latest start burst
    calc,               \* the latest direct call of a helper: arguments and outcome
    demo                \* the VelomaDemo object (demo.py) and the locals of its run loop

vars == <<current_pitch, current_volume, target_pitch, target_volume,
          current_notes, is_note_playing, glide_mode, pitch_pool, start_key,
          octave_range, pitch_range, scale_name, self_pc, gestures, hand_data,
          mapped_index, interim, settings, should_stop,
          hands_detected, audio_thread, pc, ret, iter, attached, idx,
          should_play, gate_before, branch, updFailed, held, endFailed, log, live, nextHandle,
          burstStart, calc, demo>>

\* ------------------------------------------------------------- bounds
MaxHandles == 6                 \* note handles the model follows
MaxGestures == 1                \* forked gestures the model follows
MaxTicks == 7                   \* tenths of a second the demo loop is followed
\* the hands of the frames fed in (palm_center in hundredths): one low on the
\* left of the playable region, one high inside it
FrameHands == {[x |-> 30, y |-> 75, fingers |-> <<40, 50, 42, 52>>],
               [x |-> 70, y |-> 90, fingers |-> <<40, 50, 42, 52>>]}

\* ---------------------------------------------------- program constants
Unit == 100                     \* fixed-point scale: 1.0
num_amplified_notes == 3
min_volume_threshold == 30      \* 0.3
pitch_smoothing == 100          \* 1
volume_smoothing == 100         \* 1
CC_SUSTAIN == 64

\* the threads that run _stop_current_note: the audio loop and the caller of
\* start_audio / stop_audio / _update_settings (the UI thread)
Threads == {"loop", "ctl"}
\* the callers of update_from_vision: the main loop thread and _update_settings
Callers == {"vis", "ctl"}
Procs == Threads \cup Callers
\* the names set_scale accepts among those the model feeds in
SCALES == {"major", "chromatic"}

Max(a, b) == IF a >= b THEN a ELSE b
Min(a, b) == IF a <= b THEN a ELSE b

\* variant of MapRange: the value is not clamped
MapRange_NoClamp(value, in_min, in_max, out_min, out_max) ==
    out_min + ((value - in_min) * (out_max - out_min)) \div (in_max - in_min)

\* _map_range: clamp, then interpolate
MapRange(value, in_min, in_max, out_min, out_max) ==
    LET v == Max(in_min, Min(in_max, value))
    IN  out_min + ((v - in_min) * (out_max - out_min)) \div (in_max - in_min)

\* _map_range as Python carries it out for any arguments: the division of
\* line 333 raises ZeroDivisionError when in_max = in_min
MapRangeCall(value, in_min, in_max, out_min, out_max) ==
    IF in_max = in_min
      THEN [raised |-> TRUE, value |-> 0]
      ELSE [raised |-> FALSE, value |-> MapRange(value, in_min, in_max, out_min, out_max)]

\* variant of SmoothValue: half of the step
SmoothValue_Half(current, target, smoothing) ==
    current + ((target - current) * smoothing) \div (2 * Unit)

\* _smooth_value
SmoothValue(current, target, smoothing) ==
    current + ((target - current) * smoothing) \div Unit

\* int(round(x)) of a value given in hundredths: Python rounds halves to even
RoundToInt(t) ==
    LET q == t \div Unit
        r == t % Unit
    IN  IF r * 2 < Unit THEN q
        ELSE IF r * 2 > Unit THEN q + 1
        ELSE IF q % 2 = 0 THEN q ELSE q + 1

\* the degrees one cycle of Scale.major yields, in semitones above the root
MajorSteps == <<0, 2, 4, 5, 7, 9, 11, 12>>

\* _generate_pitch_pool(scale), reading self.start_key and self.octave_range
GeneratePitchPool(scale) ==
    IF scale = "chromatic"
      THEN [i \in 1..(octave_range * 12 + 1) |-> start_key + (i - 1) * Unit]
      ELSE LET all == [i \in 1..Len(MajorSteps) |-> start_key + MajorSteps[i] * Unit]
           IN  SelectSeq(all, LAMBDA p : p <= start_key + octave_range * 12 * Unit)

volume_range == <<0, Unit>>

\* ------------------------------------------------------------ commands
StartCmd(h, p, v) == [op |-> "start", h |-> h, p |-> p, v |-> v]
UpdateCmd(h, p, v) == [op |-> "update", h |-> h, p |-> p, v |-> v]
EndCmd(h) == [op |-> "end", h |-> h, p |-> 0, v |-> 0]
EndAllCmd == [op |-> "end_all", h |-> 0, p |-> 0, v |-> 0]
CcCmd(val) == [op |-> "cc", h |-> CC_SUSTAIN, p |-> 0, v |-> val]
PlayCmd(p, v) == [op |-> "play", h |-> 0, p |-> p, v |-> v]

Send(t, cmd) == log' = [log EXCEPT ![t] = Append(@, cmd)]

Ops(t, o) == {i \in 1..Len(log[t]) : log[t][i].op = o}
SeqSet(s) == {s[i] : i \in 1..Len(s)}

\* the hand_data a caller passes: None, a dict without "hands", or a dict
\* whose "hands" is the list hs
NoFrame == [present |-> FALSE, has_hands |-> FALSE, hands |-> <<>>]
NoHandsKey == [present |-> TRUE, has_hands |-> FALSE, hands |-> <<>>]
Frame(hs) == [present |-> TRUE, has_hands |-> TRUE, hands |-> hs]

\* ------------------------------------------------- VelomaDemo (demo.py)
\* times are in tenths of a second
hand_hold_timeout == 5          \* 0.5 s
\* time.time() when run() enters its loop: far more than the timeout above 0,
\* the initial last_hand_time
Epoch == 10

\* VelomaDemo.__init__, and run() about to enter `while self.is_running`;
\* clock is the wall clock; with_hands and with_hands_time record the latest
\* tracker result that had hands and when the callback received it
DemoInit ==
    [last_hand_data |-> NoFrame, last_hand_time |-> 0, audio_enabled |-> TRUE,
     pc |-> "read", cb |-> "idle", clock |-> Epoch,
     now |-> 0, hand_data |-> NoFrame, use_hand_data |-> NoFrame,
     with_hands |-> NoFrame, with_hands_time |-> 0]

\* ---------------------------------------------------------------- Init
Init ==
    /\ current_pitch = 6000
    /\ current_volume = 50
    /\ target_pitch = 6000
    /\ target_volume = 50
    /\ current_notes = <<>>
    /\ is_note_playing = FALSE
    /\ glide_mode = FALSE
    /\ start_key = 6000
    /\ octave_range = 2
    /\ pitch_range = <<start_key, start_key + octave_range * 12 * Unit>>
    /\ scale_name = "major"
    /\ pitch_pool = GeneratePitchPool(scale_name)
    /\ self_pc = 0
    /\ gestures = <<>>
    /\ hand_data = [u \in Callers |-> <<>>]
    /\ mapped_index = [u \in Callers |-> 0]
    /\ interim = {}
    /\ settings = <<>>
    /\ should_stop = FALSE
    /\ hands_detected = FALSE
    /\ audio_thread = "none"
    /\ pc = [t \in Procs |-> "idle"]
    /\ ret = [t \in Threads |-> "idle"]
    /\ iter = [t \in Threads |-> <<>>]
    /\ attached = [t \in Threads |-> FALSE]
    /\ idx = [t \in Threads |-> 0]
    /\ should_play = FALSE
    /\ gate_before = FALSE
    /\ branch = "none"
    /\ updFailed = FALSE
    /\ held = <<>>
    /\ endFailed = [t \in Threads |-> FALSE]
    /\ log = [t \in Threads \cup {"gest"} |-> <<>>]
    /\ live = {}
    /\ nextHandle = 1
    /\ burstStart = 1
    /\ calc = [fn |-> "none", args |-> <<>>, raised |-> FALSE, value |-> 0]
    /\ demo = DemoInit

targets == <<target_pitch, target_volume, hands_detected>>
currents == <<current_pitch, current_volume>>
config == <<glide_mode, pitch_pool, start_key, octave_range, pitch_range, scale_name>>
vision == <<hand_data, mapped_index, interim>>
gest == <<self_pc, gestures>>
book == <<current_notes, is_note_playing>>
backend == <<live, nextHandle>>
ghost == <<burstStart>>
tick == <<should_play, gate_before, branch, updFailed, held>>
sweep == <<endFailed>>
fors == <<iter, attached, idx>>

Goto(t, l) == pc' = [pc EXCEPT ![t] = l]

\* self.current_notes = []: the attribute refers to a new, empty list; a for
\* loop that iterates the list it referred to before keeps that list
Rebind ==
    /\ current_notes' = <<>>
    /\ attached' = [t \in Threads |-> FALSE]

\* a for loop of thread t is over: its iterator is dropped
EndFor(t) ==
    /\ iter' = [iter EXCEPT ![t] = <<>>]
    /\ attached' = [attached EXCEPT ![t] = FALSE]
    /\ idx' = [idx EXCEPT ![t] = 0]

\* ------------------------------------------------ _audio_loop (thread)
\* variant of LoopTop: the while condition is not re-evaluated
LoopTop_NoStopTest ==
    /\ pc["loop"] \in {"top", "sleep"}
    /\ log' = [log EXCEPT !["loop"] = <<>>]
    /\ gate_before' = should_play
    /\ should_play' = FALSE
    /\ updFailed' = FALSE
    /\ held' = <<>>
    /\ endFailed' = [endFailed EXCEPT !["loop"] = FALSE]
    /\ Goto("loop", "smooth")
    /\ branch' = "none"
    /\ UNCHANGED <<demo, calc, targets, currents, config, vision, gest, settings, book, backend, ghost, should_stop,
                   audio_thread, fors, ret>>

\* time.sleep(0.0001) ends an iteration; then `while not self.should_stop:`
\* is evaluated, and after the loop comes self._stop_current_note()
LoopTop ==
    /\ pc["loop"] \in {"top", "sleep"}
    /\ log' = [log EXCEPT !["loop"] = <<>>]
    /\ gate_before' = should_play
    /\ should_play' = FALSE
    /\ updFailed' = FALSE
    /\ held' = <<>>
    /\ endFailed' = [endFailed EXCEPT !["loop"] = FALSE]
    /\ IF should_stop
         THEN /\ Goto("loop", "stop_guard")
              /\ ret' = [ret EXCEPT !["loop"] = "loop_exit"]
              /\ branch' = "final"
         ELSE /\ Goto("loop", "smooth")
              /\ branch' = "none"
              /\ UNCHANGED ret
    /\ UNCHANGED <<demo, calc, targets, currents, config, vision, gest, settings, book, backend, ghost, should_stop,
                   audio_thread, fors>>

LoopSmoothGate ==
    /\ pc["loop"] = "smooth"
    /\ current_pitch' = SmoothValue(current_pitch, target_pitch, pitch_smoothing)
    /\ current_volume' = SmoothValue(current_volume, target_volume, volume_smoothing)
    /\ should_play' = (hands_detected /\ current_volume' > min_volume_threshold)
    /\ Goto("loop", "branch")
    /\ UNCHANGED <<demo, calc, targets, config, vision, gest, settings, book, backend, ghost, sweep,
                   gate_before, branch, updFailed, held,
                   should_stop, audio_thread, ret, fors, log>>

LoopBranch ==
    /\ pc["loop"] = "branch"
    /\ IF should_play
         THEN IF ~is_note_playing
                THEN Goto("loop", "start_clear") /\ branch' = "start" /\ UNCHANGED ret
                ELSE Goto("loop", "upd_guard") /\ branch' = "update" /\ UNCHANGED ret
         ELSE IF is_note_playing
                THEN /\ Goto("loop", "stop_guard")
                     /\ branch' = "stop"
                     /\ ret' = [ret EXCEPT !["loop"] = "sleep"]
                ELSE Goto("loop", "sleep") /\ branch' = "none" /\ UNCHANGED ret
    /\ held' = current_notes
    /\ UNCHANGED <<demo, calc, targets, currents, config, vision, gest, settings, book, backend, ghost, sweep,
                   should_play, gate_before, updFailed,
                   should_stop, audio_thread, fors, log>>

\* _audio_loop returns: the thread is no longer alive
LoopExit ==
    /\ pc["loop"] = "loop_exit"
    /\ Goto("loop", "exited")
    /\ audio_thread' = "dead"
    /\ log' = [log EXCEPT !["loop"] = <<>>]
    /\ branch' = "none"
    /\ held' = <<>>
    /\ endFailed' = [endFailed EXCEPT !["loop"] = FALSE]
    /\ gate_before' = FALSE
    /\ UNCHANGED <<demo, calc, targets, currents, config, vision, gest, settings, book, backend, ghost,
                   should_play, updFailed,
                   should_stop, ret, fors>>

\* ---------------------------------------------- _start_continuous_note
\* self.current_notes = []
StartClear ==
    /\ pc["loop"] = "start_clear"
    /\ nextHandle + num_amplified_notes - 1 <= MaxHandles
    /\ Rebind
    /\ idx' = [idx EXCEPT !["loop"] = 0]
    /\ burstStart' = nextHandle
    /\ Goto("loop", "start_call")
    /\ UNCHANGED <<demo, calc, targets, currents, config, vision, gest, settings, is_note_playing, backend, tick, sweep,
                   should_stop, audio_thread, ret, iter, log>>

\* variant of StartNoteOk: the note is started with the targets, not with the
\* smoothed current values
StartNoteOk_Targets ==
    /\ pc["loop"] = "start_call"
    /\ idx["loop"] < num_amplified_notes
    /\ live' = live \cup {nextHandle}
    /\ nextHandle' = nextHandle + 1
    /\ current_notes' = Append(current_notes, nextHandle)
    /\ iter' = [t \in Threads |->
                  IF attached[t] THEN Append(iter[t], nextHandle) ELSE iter[t]]
    /\ idx' = [idx EXCEPT !["loop"] = @ + 1]
    /\ Send("loop", StartCmd(nextHandle, target_pitch, target_volume))
    /\ UNCHANGED <<demo, calc, targets, currents, config, vision, gest, settings, is_note_playing, ghost, tick, sweep,
                   should_stop, audio_thread, pc, ret, attached>>

\* note = self.theremin.start_note(...); self.current_notes.append(note)
\* the append is in place: a for loop iterating this very list sees the note
StartNoteOk ==
    /\ pc["loop"] = "start_call"
    /\ idx["loop"] < num_amplified_notes
    /\ live' = live \cup {nextHandle}
    /\ nextHandle' = nextHandle + 1
    /\ current_notes' = Append(current_notes, nextHandle)
    /\ iter' = [t \in Threads |->
                  IF attached[t] THEN Append(iter[t], nextHandle) ELSE iter[t]]
    /\ idx' = [idx EXCEPT !["loop"] = @ + 1]
    /\ Send("loop", StartCmd(nextHandle, current_pitch, current_volume))
    /\ UNCHANGED <<demo, calc, targets, currents, config, vision, gest, settings, is_note_playing, ghost, tick, sweep,
                   should_stop, audio_thread, pc, ret, attached>>

\* start_note raises: nothing in _start_continuous_note or _audio_loop catches
\* it, the exception ends the thread
StartNoteRaises ==
    /\ pc["loop"] = "start_call"
    /\ idx["loop"] < num_amplified_notes
    /\ Goto("loop", "crashed")
    /\ audio_thread' = "dead"
    /\ UNCHANGED <<demo, calc, targets, currents, config, vision, gest, settings, book, backend, ghost, tick, sweep,
                   should_stop, ret, fors, log>>

\* variant of StartDone: the sustain pedal is pressed when the burst is over
StartDone_SustainOn ==
    /\ pc["loop"] = "start_call"
    /\ idx["loop"] = num_amplified_notes
    /\ is_note_playing' = TRUE
    /\ Send("loop", CcCmd(127))
    /\ Goto("loop", "sleep")
    /\ EndFor("loop")
    /\ UNCHANGED <<demo, calc, targets, currents, config, vision, gest, settings, current_notes, backend, ghost, tick, sweep,
                   should_stop, audio_thread, ret>>

\* self.is_note_playing = True
StartDone ==
    /\ pc["loop"] = "start_call"
    /\ idx["loop"] = num_amplified_notes
    /\ is_note_playing' = TRUE
    /\ Goto("loop", "sleep")
    /\ EndFor("loop")
    /\ UNCHANGED <<demo, calc, targets, currents, config, vision, gest, settings, current_notes, backend, ghost, tick, sweep,
                   should_stop, audio_thread, ret, log>>

\* --------------------------------------------- _update_note_parameters
\* if self.current_notes and self.is_note_playing:
UpdGuard ==
    /\ pc["loop"] = "upd_guard"
    /\ IF current_notes # <<>> /\ is_note_playing
         THEN Goto("loop", "upd_bind")
         ELSE Goto("loop", "sleep")
    /\ UNCHANGED <<demo, calc, targets, currents, config, vision, gest, settings, book, backend, ghost, tick, sweep,
                   should_stop, audio_thread, ret, fors, log>>

\* for note in self.current_notes: the loop iterates the list bound here
UpdBind ==
    /\ pc["loop"] = "upd_bind"
    /\ iter' = [iter EXCEPT !["loop"] = current_notes]
    /\ attached' = [attached EXCEPT !["loop"] = TRUE]
    /\ idx' = [idx EXCEPT !["loop"] = 1]
    /\ Goto("loop", "upd_note")
    /\ UNCHANGED <<demo, calc, targets, currents, config, vision, gest, settings, book, backend, ghost, sweep,
                   should_play, gate_before, branch, updFailed, held,
                   should_stop, audio_thread, ret, log>>

\* note.change_pitch(...); note.change_volume(...)
UpdNoteOk ==
    /\ pc["loop"] = "upd_note"
    /\ idx["loop"] <= Len(iter["loop"])
    /\ Send("loop", UpdateCmd(iter["loop"][idx["loop"]], current_pitch, current_volume))
    /\ idx' = [idx EXCEPT !["loop"] = @ + 1]
    /\ UNCHANGED <<demo, calc, targets, currents, config, vision, gest, settings, book, backend, ghost, tick, sweep,
                   should_stop, audio_thread, pc, ret, iter, attached>>

\* one of the two calls raises: except Exception -> self._stop_current_note()
UpdNoteRaises ==
    /\ pc["loop"] = "upd_note"
    /\ idx["loop"] <= Len(iter["loop"])
    /\ updFailed' = TRUE
    /\ EndFor("loop")
    /\ Goto("loop", "stop_guard")
    /\ ret' = [ret EXCEPT !["loop"] = "sleep"]
    /\ UNCHANGED <<demo, calc, targets, currents, config, vision, gest, settings, book, backend, ghost, sweep,
                   should_play, gate_before, branch, held,
                   should_stop, audio_thread, log>>

\* variant of UpdDone: the for loop may be left after its first note
UpdDone_Early ==
    /\ pc["loop"] = "upd_note"
    /\ idx["loop"] > 1
    /\ Goto("loop", "sleep")
    /\ EndFor("loop")
    /\ UNCHANGED <<demo, calc, targets, currents, config, vision, gest, settings, book, backend, ghost, tick, sweep,
                   should_stop, audio_thread, ret, log>>

\* the for loop is exhausted
UpdDone ==
    /\ pc["loop"] = "upd_note"
    /\ idx["loop"] > Len(iter["loop"])
    /\ Goto("loop", "sleep")
    /\ EndFor("loop")
    /\ UNCHANGED <<demo, calc, targets, currents, config, vision, gest, settings, book, backend, ghost, tick, sweep,
                   should_stop, audio_thread, ret, log>>

\* -------------------------------- _stop_current_note, run by thread t
\* if self.current_notes and self.is_note_playing:
StopGuard(t) ==
    /\ pc[t] = "stop_guard"
    /\ IF current_notes # <<>> /\ is_note_playing
         THEN Goto(t, "stop_bind")
         ELSE Goto(t, ret[t])
    /\ UNCHANGED <<demo, calc, targets, currents, config, vision, gest, settings, book, backend, ghost, tick, sweep,
                   should_stop, audio_thread, ret, fors, log>>

\* for note in self.current_notes:
StopBind(t) ==
    /\ pc[t] = "stop_bind"
    /\ iter' = [iter EXCEPT ![t] = current_notes]
    /\ attached' = [attached EXCEPT ![t] = TRUE]
    /\ idx' = [idx EXCEPT ![t] = 1]
    /\ Goto(t, "stop_end")
    /\ UNCHANGED <<demo, calc, targets, currents, config, vision, gest, settings, book, backend, ghost, tick, sweep,
                   should_stop, audio_thread, ret, log>>

\* note.end()
StopEndOk(t) ==
    /\ pc[t] = "stop_end"
    /\ idx[t] <= Len(iter[t])
    /\ live' = live \ {iter[t][idx[t]]}
    /\ Send(t, EndCmd(iter[t][idx[t]]))
    /\ idx' = [idx EXCEPT ![t] = @ + 1]
    /\ UNCHANGED <<demo, calc, targets, currents, config, vision, gest, settings, book, nextHandle, ghost, tick, sweep,
                   should_stop, audio_thread, pc, ret, iter, attached>>

\* note.end() raises: the note is not ended, control goes to the except branch
StopEndRaises(t) ==
    /\ pc[t] = "stop_end"
    /\ idx[t] <= Len(iter[t])
    /\ endFailed' = [endFailed EXCEPT ![t] = TRUE]
    /\ Goto(t, "exc_clear_notes")
    /\ EndFor(t)
    /\ UNCHANGED <<demo, calc, targets, currents, config, vision, gest, settings, book, backend, ghost, tick,
                   should_stop, audio_thread, ret, log>>

StopEndDone(t) ==
    /\ pc[t] = "stop_end"
    /\ idx[t] > Len(iter[t])
    /\ Goto(t, "stop_clear_notes")
    /\ EndFor(t)
    /\ UNCHANGED <<demo, calc, targets, currents, config, vision, gest, settings, book, backend, ghost, tick, sweep,
                   should_stop, audio_thread, ret, log>>

\* self.current_notes = []   (try branch)
StopClearNotes(t) ==
    /\ pc[t] = "stop_clear_notes"
    /\ Rebind
    /\ Goto(t, "stop_clear_flag")
    /\ UNCHANGED <<demo, calc, targets, currents, config, vision, gest, settings, is_note_playing, backend, ghost, tick,
                   sweep, should_stop, audio_thread, ret, iter, idx, log>>

\* self.is_note_playing = False   (try branch)
StopClearFlag(t) ==
    /\ pc[t] = "stop_clear_flag"
    /\ is_note_playing' = FALSE
    /\ Goto(t, "stop_cc")
    /\ UNCHANGED <<demo, calc, targets, currents, config, vision, gest, settings, current_notes, backend, ghost, tick,
                   sweep, should_stop, audio_thread, ret, fors, log>>

\* self.theremin.send_midi_cc(64, 0)   (try branch)
StopCc(t) ==
    /\ pc[t] = "stop_cc"
    /\ Send(t, CcCmd(0))
    /\ Goto(t, ret[t])
    /\ UNCHANGED <<demo, calc, targets, currents, config, vision, gest, settings, book, backend, ghost, tick, sweep,
                   should_stop, audio_thread, ret, fors>>

\* self.current_notes = []   (except branch)
ExcClearNotes(t) ==
    /\ pc[t] = "exc_clear_notes"
    /\ Rebind
    /\ Goto(t, "exc_clear_flag")
    /\ UNCHANGED <<demo, calc, targets, currents, config, vision, gest, settings, is_note_playing, backend, ghost, tick,
                   sweep, should_stop, audio_thread, ret, iter, idx, log>>

\* variant of ExcClearFlag: the except branch leaves the flag as it is
ExcClearFlag_Keep(t) ==
    /\ pc[t] = "exc_clear_flag"
    /\ Goto(t, "exc_end_all")
    /\ UNCHANGED <<demo, calc, targets, currents, config, vision, gest, settings, book, backend, ghost, tick,
                   sweep, should_stop, audio_thread, ret, fors, log>>

\* self.is_note_playing = False   (except branch)
ExcClearFlag(t) ==
    /\ pc[t] = "exc_clear_flag"
    /\ is_note_playing' = FALSE
    /\ Goto(t, "exc_end_all")
    /\ UNCHANGED <<demo, calc, targets, currents, config, vision, gest, settings, current_notes, backend, ghost, tick,
                   sweep, should_stop, audio_thread, ret, fors, log>>

\* self.theremin.end_all_notes()   (except branch)
ExcEndAll(t) ==
    /\ pc[t] = "exc_end_all"
    /\ live' = {}
    /\ Send(t, EndAllCmd)
    /\ Goto(t, ret[t])
    /\ UNCHANGED <<demo, calc, targets, currents, config, vision, gest, settings, book, nextHandle, ghost, tick, sweep,
                   should_stop, audio_thread, ret, fors>>

StopCurrentNote(t) ==
    \/ StopGuard(t)
    \/ StopBind(t)
    \/ StopEndOk(t)
    \/ StopEndRaises(t)
    \/ StopEndDone(t)
    \/ StopClearNotes(t)
    \/ StopClearFlag(t)
    \/ StopCc(t)
    \/ ExcClearNotes(t)
    \/ ExcClearFlag(t)
    \/ ExcEndAll(t)

\* ------------------------------------------------- update_from_vision
Frames == {<<>>} \cup {<<a>> : a \in FrameHands}
              \cup {<<a, b>> : a \in FrameHands, b \in FrameHands}

\* the pitch target a palm x gives: the glide mapping, or the pool entry at
\* int(round(mapped index))
PitchFor(x) ==
    IF glide_mode
      THEN MapRange(x, 50, Unit, pitch_range[1], pitch_range[2])
      ELSE pitch_pool[RoundToInt(MapRange(x, 50, Unit, 0, (Len(pitch_pool) - 1) * Unit)) + 1]

\* the volume target a palm y gives
VolumeFor(y) == MapRange(Unit - y, 0, 50, volume_range[1], volume_range[2])

\* variant of RightHand: the first hand of the list, whatever its x
RightHand_First(hands) == hands[1]

\* with two hands: the hand with the larger palm x (the second on a tie)
RightHand(hands) == IF hands[1].x > hands[2].x THEN hands[1] ELSE hands[2]

\* and the other hand
LeftHand(hands) == IF hands[1].x > hands[2].x THEN hands[2] ELSE hands[1]

\* update_from_vision(hand_data) for hand_data["hands"] = hands, as one
\* step: what a call that nothing interleaves with writes to the targets.
\* The frame counter and the gesture of lines 149-175 are followed by the
\* statement-level actions below.
VisionTargets(hands) ==
    IF hands = <<>>
      THEN /\ hands_detected' = FALSE
           /\ UNCHANGED <<target_pitch, target_volume>>
      ELSE /\ hands_detected' = TRUE
           /\ IF Len(hands) >= 2
                THEN /\ target_pitch' = PitchFor(RightHand(hands).x)
                     /\ target_volume' = VolumeFor(LeftHand(hands).y)
                ELSE /\ target_pitch' = PitchFor(hands[1].x)
                     /\ target_volume' = VolumeFor(hands[1].y)

\* update_from_vision(hand_data) called with a frame of these hands
UpdateFromVision(hands) ==
    /\ VisionTargets(hands)
    /\ UNCHANGED <<demo, calc, currents, config, vision, gest, settings, book, backend, ghost, tick, sweep,
                   should_stop, audio_thread, pc, ret, fors, log>>

\* ------------------------- update_from_vision, statement by statement
\* run by caller u: the main loop thread ("vis") or _update_settings ("ctl")
GESTURE_EVERY == 37

\* crossed: the index and middle tips lie in the other order than their bases
\* (fingers = x of landmarks 8, 12, 5, 9)
Crossed(hand) ==
    (hand.fingers[1] < hand.fingers[2]) # (hand.fingers[3] < hand.fingers[4])

\* update_from_vision returns to its caller; _update_settings ends with it
VisReturn(u) ==
    /\ Goto(u, "idle")
    /\ hand_data' = [hand_data EXCEPT ![u] = <<>>]
    /\ mapped_index' = [mapped_index EXCEPT ![u] = 0]
    /\ settings' = IF u = "ctl" THEN <<>> ELSE settings

\* not hand_data or not hand_data.get("hands")
NoHandData(frame) == ~frame.present \/ ~frame.has_hands \/ frame.hands = <<>>

\* variant of VisEnter: a frame without hand data also silences the target
VisEnter_Silence(frame) ==
    /\ pc["vis"] = "idle"
    /\ IF NoHandData(frame)
         THEN /\ hands_detected' = FALSE
              /\ target_volume' = 0
              /\ UNCHANGED <<pc, hand_data>>
         ELSE /\ hands_detected' = TRUE
              /\ hand_data' = [hand_data EXCEPT !["vis"] = frame.hands]
              /\ Goto("vis", "v_count")
              /\ UNCHANGED target_volume
    /\ UNCHANGED <<demo, calc, target_pitch, currents, config, book, backend,
                   ghost, tick, sweep, gest, mapped_index, interim, settings,
                   should_stop, audio_thread, ret, fors, log>>

\* lines 141-147, called by the main loop with hand_data = frame
VisEnter(frame) ==
    /\ pc["vis"] = "idle"
    /\ IF NoHandData(frame)
         THEN /\ hands_detected' = FALSE
              /\ UNCHANGED <<pc, hand_data>>
         ELSE /\ hands_detected' = TRUE
              /\ hand_data' = [hand_data EXCEPT !["vis"] = frame.hands]
              /\ Goto("vis", "v_count")
    /\ UNCHANGED <<demo, calc, target_pitch, target_volume, currents, config, book, backend,
                   ghost, tick, sweep, gest, mapped_index, interim, settings,
                   should_stop, audio_thread, ret, fors, log>>

\* lines 149-175: self.pc += 1; every 38th frame with hands is tested for
\* crossed fingers, and sc.fork(self.play_gesture) starts a gesture
VisCount(u) ==
    /\ pc[u] = "v_count"
    /\ IF self_pc + 1 > GESTURE_EVERY
         THEN /\ self_pc' = 0
              /\ IF Crossed(hand_data[u][1])
                   THEN /\ Len(gestures) < MaxGestures
                        /\ gestures' = Append(gestures, 0)
                   ELSE UNCHANGED gestures
         ELSE /\ self_pc' = self_pc + 1
              /\ UNCHANGED gestures
    /\ Goto(u, "v_pitch")
    /\ UNCHANGED <<demo, calc, targets, currents, config, vision, settings, book, backend,
                   ghost, tick, sweep, should_stop, audio_thread, ret, fors, log>>

\* a write of target_pitch or target_volume from `hand` marks the target as
\* interim when the frame has a second hand that will overwrite it
Mark(which, u, hand, final) ==
    IF Len(hand_data[u]) >= 2 /\ hand # final
      THEN interim \cup {which}
      ELSE interim \ {which}

\* the pitch statement for palm x `x`: glide writes the target (lines 190-192,
\* 218-221), otherwise the index is computed from len(self.pitch_pool)
\* (lines 194-195, 223-224)
PitchStmt(u, hand, final, after) ==
    IF glide_mode
      THEN /\ target_pitch' = MapRange(hand.x, 50, Unit, pitch_range[1], pitch_range[2])
           /\ interim' = Mark("pitch", u, hand, final)
           /\ Goto(u, after)
           /\ UNCHANGED mapped_index
      ELSE /\ mapped_index' = [mapped_index EXCEPT ![u] =
                 RoundToInt(MapRange(hand.x, 50, Unit, 0, (Len(pitch_pool) - 1) * Unit))]
           /\ Goto(u, after \o "_pool")
           /\ UNCHANGED <<target_pitch, interim>>

\* self.target_pitch = self.pitch_pool[mapped_index] (lines 196, 225)
PoolStmt(u, hand, final, after) ==
    /\ mapped_index[u] + 1 <= Len(pitch_pool)
    /\ target_pitch' = pitch_pool[mapped_index[u] + 1]
    /\ interim' = Mark("pitch", u, hand, final)
    /\ Goto(u, after)

VisPitch(u) ==
    /\ pc[u] = "v_pitch"
    /\ PitchStmt(u, hand_data[u][1],
                 IF Len(hand_data[u]) >= 2 THEN RightHand(hand_data[u]) ELSE hand_data[u][1],
                 "v_volume")
    /\ UNCHANGED <<demo, calc, target_volume, hands_detected, hand_data, currents, config, gest,
                   settings, book, backend, ghost, tick, sweep, should_stop,
                   audio_thread, ret, fors, log>>

VisPool(u) ==
    /\ pc[u] = "v_volume_pool"
    /\ PoolStmt(u, hand_data[u][1],
                IF Len(hand_data[u]) >= 2 THEN RightHand(hand_data[u]) ELSE hand_data[u][1],
                "v_volume")
    /\ UNCHANGED <<demo, calc, target_volume, hands_detected, hand_data, mapped_index, currents,
                   config, gest, settings, book, backend, ghost, tick, sweep,
                   should_stop, audio_thread, ret, fors, log>>

\* self.pitch_pool[mapped_index] raises IndexError: update_from_vision is left
VisPoolRaises(u) ==
    /\ pc[u] \in {"v_volume_pool", "v_volume2_pool"}
    /\ mapped_index[u] + 1 > Len(pitch_pool)
    /\ VisReturn(u)
    /\ UNCHANGED <<demo, calc, targets, currents, config, gest, interim, book, backend,
                   ghost, tick, sweep, should_stop, audio_thread, ret, fors, log>>

\* lines 200-202: the volume of hands[0]; a frame of one hand is done
VisVolume(u) ==
    /\ pc[u] = "v_volume"
    /\ target_volume' = VolumeFor(hand_data[u][1].y)
    /\ IF Len(hand_data[u]) >= 2
         THEN /\ interim' = Mark("volume", u, hand_data[u][1], LeftHand(hand_data[u]))
              /\ Goto(u, "v_pitch2")
              /\ UNCHANGED <<hand_data, mapped_index, settings>>
         ELSE /\ interim' = interim \ {"volume"}
              /\ VisReturn(u)
    /\ UNCHANGED <<demo, calc, target_pitch, hands_detected, currents, config, gest, book, backend,
                   ghost, tick, sweep, should_stop, audio_thread, ret, fors, log>>

\* lines 204-225: with two hands the pitch is written again, from the right hand
VisPitch2(u) ==
    /\ pc[u] = "v_pitch2"
    /\ PitchStmt(u, RightHand(hand_data[u]), RightHand(hand_data[u]), "v_volume2")
    /\ UNCHANGED <<demo, calc, target_volume, hands_detected, hand_data, currents, config, gest,
                   settings, book, backend, ghost, tick, sweep, should_stop,
                   audio_thread, ret, fors, log>>

VisPool2(u) ==
    /\ pc[u] = "v_volume2_pool"
    /\ PoolStmt(u, RightHand(hand_data[u]), RightHand(hand_data[u]), "v_volume2")
    /\ UNCHANGED <<demo, calc, target_volume, hands_detected, hand_data, mapped_index, currents,
                   config, gest, settings, book, backend, ghost, tick, sweep,
                   should_stop, audio_thread, ret, fors, log>>

\* lines 228-233: and the volume, from the left hand
VisVolume2(u) ==
    /\ pc[u] = "v_volume2"
    /\ target_volume' = VolumeFor(LeftHand(hand_data[u]).y)
    /\ interim' = interim \ {"volume"}
    /\ VisReturn(u)
    /\ UNCHANGED <<demo, calc, target_pitch, hands_detected, currents, config, gest, book, backend,
                   ghost, tick, sweep, should_stop, audio_thread, ret, fors, log>>

\* ------------------------------------------------------- play_gesture
\* gesture_list["arpeggio"]: the pitches play_gesture passes to play_note
Arpeggio == <<0, 2, 4, 2, 0>>

\* self.theremin.play_note(..., self.current_volume, 1, blocking=False) of
\* the i-th running gesture, then sc.wait(1); log["gest"] is the last command
\* a gesture sent
GesturePlay(i) ==
    /\ i \in 1..Len(gestures)
    /\ gestures[i] < Len(Arpeggio)
    /\ gestures' = [gestures EXCEPT ![i] = @ + 1]
    /\ log' = [log EXCEPT !["gest"] = <<PlayCmd(Arpeggio[gestures[i] + 1] * Unit, current_volume)>>]
    /\ UNCHANGED <<demo, calc, targets, currents, config, vision, settings, book, backend,
                   ghost, tick, sweep, self_pc, should_stop, audio_thread, pc,
                   ret, fors>>

\* self.theremin.end_all_notes(): every note of the part is ended, the held
\* voices of the controller among them; the gesture is over
GestureEndAll(i) ==
    /\ i \in 1..Len(gestures)
    /\ gestures[i] = Len(Arpeggio)
    /\ gestures' = SubSeq(gestures, 1, i - 1) \o SubSeq(gestures, i + 1, Len(gestures))
    /\ live' = {}
    /\ log' = [log EXCEPT !["gest"] = <<EndAllCmd>>]
    /\ UNCHANGED <<demo, calc, targets, currents, config, vision, settings, book, nextHandle,
                   ghost, tick, sweep, self_pc, should_stop, audio_thread, pc,
                   ret, fors>>

\* ----------------------------------- VelomaApp._update_settings (main.py)
\* the UI thread calls it with the settings of the panel; lines 67-69
UpdateSettings(st) ==
    /\ pc["ctl"] = "idle"
    /\ settings' = st
    /\ start_key' = st.start_key
    /\ Goto("ctl", "set_octave")
    /\ UNCHANGED <<demo, calc, targets, currents, glide_mode, pitch_pool, octave_range,
                   pitch_range, scale_name, vision, gest, book, backend, ghost,
                   tick, sweep, should_stop, audio_thread, ret, fors, log>>

\* self.instrument.octave_range = octave_range
SetOctave ==
    /\ pc["ctl"] = "set_octave"
    /\ octave_range' = settings.octave_range
    /\ Goto("ctl", "set_range")
    /\ UNCHANGED <<demo, calc, targets, currents, glide_mode, pitch_pool, start_key,
                   pitch_range, scale_name, vision, gest, settings, book, backend,
                   ghost, tick, sweep, should_stop, audio_thread, ret, fors, log>>

\* self.instrument.pitch_range = (start_key, start_key + octave_range * 12)
SetRange ==
    /\ pc["ctl"] = "set_range"
    /\ pitch_range' = <<settings.start_key,
                        settings.start_key + settings.octave_range * 12 * Unit>>
    /\ Goto("ctl", "set_scale")
    /\ UNCHANGED <<demo, calc, targets, currents, glide_mode, pitch_pool, start_key,
                   octave_range, scale_name, vision, gest, settings, book, backend,
                   ghost, tick, sweep, should_stop, audio_thread, ret, fors, log>>

\* variant of SetScale: a name that is not in SCALES selects the first scale
SetScale_Default ==
    /\ pc["ctl"] = "set_scale"
    /\ scale_name' = IF settings.scale \in SCALES THEN settings.scale ELSE "major"
    /\ Goto("ctl", "set_pool")
    /\ UNCHANGED <<demo, calc, targets, currents, glide_mode, pitch_pool, start_key,
                   octave_range, pitch_range, vision, gest, settings, book, backend,
                   ghost, tick, sweep, should_stop, audio_thread, ret, fors, log>>

\* set_scale: if scale_name in SCALES: self.scale_name = scale_name
SetScale ==
    /\ pc["ctl"] = "set_scale"
    /\ IF settings.scale \in SCALES
         THEN scale_name' = settings.scale /\ Goto("ctl", "set_pool")
         ELSE UNCHANGED scale_name /\ Goto("ctl", "set_glide")
    /\ UNCHANGED <<demo, calc, targets, currents, glide_mode, pitch_pool, start_key,
                   octave_range, pitch_range, vision, gest, settings, book, backend,
                   ghost, tick, sweep, should_stop, audio_thread, ret, fors, log>>

\* set_scale: self.pitch_pool = self._generate_pitch_pool(scale_name)
SetPool ==
    /\ pc["ctl"] = "set_pool"
    /\ pitch_pool' = GeneratePitchPool(settings.scale)
    /\ Goto("ctl", "set_glide")
    /\ UNCHANGED <<demo, calc, targets, currents, glide_mode, start_key, octave_range,
                   pitch_range, scale_name, vision, gest, settings, book, backend,
                   ghost, tick, sweep, should_stop, audio_thread, ret, fors, log>>

\* self.instrument.glide_mode = settings.get('glide_mode', False)
SetGlide ==
    /\ pc["ctl"] = "set_glide"
    /\ glide_mode' = settings.glide_mode
    /\ Goto("ctl", "set_instrument")
    /\ UNCHANGED <<demo, calc, targets, currents, pitch_pool, start_key, octave_range,
                   pitch_range, scale_name, vision, gest, settings, book, backend,
                   ghost, tick, sweep, should_stop, audio_thread, ret, fors, log>>

\* set_instrument("Sine Wave" / "Piano"): the voice of the part, which this
\* model does not follow; in glide mode _update_settings goes on to line 91
SetInstrument ==
    /\ pc["ctl"] = "set_instrument"
    /\ IF glide_mode
         THEN Goto("ctl", "set_vision") /\ UNCHANGED settings
         ELSE Goto("ctl", "idle") /\ settings' = <<>>
    /\ UNCHANGED <<demo, calc, targets, currents, config, vision, gest, book, backend,
                   ghost, tick, sweep, should_stop, audio_thread, ret, fors, log>>

\* lines 91-92: update_from_vision(self.last_hand_data) when the main loop
\* has kept a frame with hands (any of the frames it may have kept), else
\* _update_settings is over
SetVision ==
    /\ pc["ctl"] = "set_vision"
    /\ \/ \E hands \in Frames \ {<<>>} :
             /\ hands_detected' = TRUE
             /\ hand_data' = [hand_data EXCEPT !["ctl"] = hands]
             /\ Goto("ctl", "v_count")
             /\ UNCHANGED settings
       \/ /\ Goto("ctl", "idle")
          /\ settings' = <<>>
          /\ UNCHANGED <<hands_detected, hand_data>>
    /\ UNCHANGED <<demo, calc, target_pitch, target_volume, currents, config, gest,
                   mapped_index, interim, book, backend, ghost, tick, sweep,
                   should_stop, audio_thread, ret, fors, log>>

\* ---------------------------------------------------------- start_audio
\* variant of StartAudio: no is_alive() test before the thread is created
StartAudio_NoGuard ==
    /\ pc["ctl"] = "idle"
    /\ Send("ctl", CcCmd(0))
    /\ Goto("ctl", "start_thread")
    /\ UNCHANGED <<demo, calc, targets, currents, config, vision, gest, settings, book, backend, ghost, tick, sweep,
                   should_stop, audio_thread, ret, fors>>

\* if self.audio_thread and self.audio_thread.is_alive(): return
\* self.theremin.send_midi_cc(64, 0)
StartAudio ==
    /\ pc["ctl"] = "idle"
    /\ IF audio_thread = "alive"
         THEN UNCHANGED <<pc, log>>
         ELSE /\ Send("ctl", CcCmd(0))
              /\ Goto("ctl", "start_thread")
    /\ UNCHANGED <<demo, calc, targets, currents, config, vision, gest, settings, book, backend, ghost, tick, sweep,
                   should_stop, audio_thread, ret, fors>>

\* self.should_stop = False; the thread is created and started
StartAudioThread ==
    /\ pc["ctl"] = "start_thread"
    /\ should_stop' = FALSE
    /\ audio_thread' = "alive"
    /\ pc' = [pc EXCEPT !["ctl"] = "idle", !["loop"] = "top"]
    /\ log' = [log EXCEPT !["ctl"] = <<>>]
    /\ should_play' = FALSE
    /\ gate_before' = FALSE
    /\ UNCHANGED <<demo, calc, targets, currents, config, vision, gest, settings, book, backend, ghost, sweep,
                   branch, updFailed, held, ret, fors>>

\* ----------------------------------------------------------- stop_audio
\* self.should_stop = True; self._stop_current_note()
StopAudio ==
    /\ pc["ctl"] = "idle"
    /\ should_stop' = TRUE
    /\ ret' = [ret EXCEPT !["ctl"] = "ctl_cc"]
    /\ Goto("ctl", "stop_guard")
    /\ UNCHANGED <<demo, calc, targets, currents, config, vision, gest, settings, book, backend, ghost, tick, sweep,
                   audio_thread, fors, log>>

\* self.theremin.send_midi_cc(64, 0)
StopAudioCc ==
    /\ pc["ctl"] = "ctl_cc"
    /\ Send("ctl", CcCmd(0))
    /\ Goto("ctl", "join")
    /\ UNCHANGED <<demo, calc, targets, currents, config, vision, gest, settings, book, backend, ghost, tick, sweep,
                   should_stop, audio_thread, ret, fors>>

\* if self.audio_thread: self.audio_thread.join(timeout=1.0): the thread has ended
StopAudioJoined ==
    /\ pc["ctl"] = "join"
    /\ audio_thread # "alive"
    /\ Goto("ctl", "idle")
    /\ log' = [log EXCEPT !["ctl"] = <<>>]
    /\ endFailed' = [endFailed EXCEPT !["ctl"] = FALSE]
    /\ UNCHANGED <<demo, calc, targets, currents, config, vision, gest, settings, book, backend, ghost, tick,
                   should_stop, audio_thread, ret, fors>>

\* join(timeout=1.0) returns with the thread still alive
StopAudioJoinTimeout ==
    /\ pc["ctl"] = "join"
    /\ audio_thread = "alive"
    /\ Goto("ctl", "idle")
    /\ log' = [log EXCEPT !["ctl"] = <<>>]
    /\ endFailed' = [endFailed EXCEPT !["ctl"] = FALSE]
    /\ UNCHANGED <<demo, calc, targets, currents, config, vision, gest, settings, book, backend, ghost, tick,
                   should_stop, audio_thread, ret, fors>>

\* ---------------------------------------------------------------- Next
Next ==
    \/ LoopTop
    \/ LoopSmoothGate
    \/ LoopBranch
    \/ LoopExit
    \/ StartClear
    \/ StartNoteOk
    \/ StartNoteRaises
    \/ StartDone
    \/ UpdGuard
    \/ UpdBind
    \/ UpdNoteOk
    \/ UpdNoteRaises
    \/ UpdDone
    \/ \E t \in Threads : StopCurrentNote(t)
    \/ \E hands \in Frames : UpdateFromVision(hands)
    \/ StartAudio
    \/ StartAudioThread
    \/ StopAudio
    \/ StopAudioCc
    \/ StopAudioJoined
    \/ StopAudioJoinTimeout

Spec == Init /\ [][Next]_vars

\* the steps of the loop thread; the thread is scheduled again and again
\* (time.sleep(0.0001) returns, the backend calls do not block)
LoopStep ==
    \/ LoopTop
    \/ LoopSmoothGate
    \/ LoopBranch
    \/ LoopExit
    \/ StartClear
    \/ StartNoteOk
    \/ StartNoteRaises
    \/ StartDone
    \/ UpdGuard
    \/ UpdBind
    \/ UpdNoteOk
    \/ UpdNoteRaises
    \/ UpdDone
    \/ StopCurrentNote("loop")

SpecFair == Init /\ [][Next]_vars /\ WF_vars(LoopStep)

\* the steps by which a call of start_audio or stop_audio that has begun goes
\* on to its return: the caller's thread keeps running, too
CtlStep ==
    \/ StartAudioThread
    \/ StopCurrentNote("ctl")
    \/ StopAudioCc
    \/ StopAudioJoined
    \/ StopAudioJoinTimeout

SpecFairAll == Init /\ [][Next]_vars /\ WF_vars(LoopStep) /\ WF_vars(CtlStep)

\* ------------------------------------------------------------ SpecVision
\* the settings the panel sends
SettingsInputs ==
    {[start_key |-> 6000, octave_range |-> 2, scale |-> "major", glide_mode |-> TRUE],
     [start_key |-> 6000, octave_range |-> 2, scale |-> "chromatic", glide_mode |-> FALSE],
     [start_key |-> 6200, octave_range |-> 1, scale |-> "major", glide_mode |-> FALSE]}

\* a hand whose index and middle fingers are crossed
CrossedHand == [x |-> 70, y |-> 75, fingers |-> <<50, 40, 42, 52>>]

\* the frames the main loop passes in SpecVision: no hand data, two hands
\* with hands[0] on the left, one hand with crossed fingers
VisionFrames ==
    {NoFrame, NoHandsKey, Frame(<<>>), Frame(<<CrossedHand>>)}
        \cup {Frame(<<a, b>>) : a \in {h \in FrameHands : h.x < 50},
                               b \in {h \in FrameHands : h.x > 50}}

\* the audio loop, the main loop calling update_from_vision statement by
\* statement, and the gestures the updates fork; no backend call fails,
\* stop_audio and _update_settings are not called
NextVision ==
    \/ LoopTop
    \/ LoopSmoothGate
    \/ LoopBranch
    \/ StartClear
    \/ StartNoteOk
    \/ StartDone
    \/ UpdGuard
    \/ UpdBind
    \/ UpdNoteOk
    \/ UpdDone
    \/ StopGuard("loop")
    \/ StopBind("loop")
    \/ StopEndOk("loop")
    \/ StopEndDone("loop")
    \/ StopClearNotes("loop")
    \/ StopClearFlag("loop")
    \/ StopCc("loop")
    \/ StartAudio
    \/ StartAudioThread
    \/ \E frame \in VisionFrames : VisEnter(frame)
    \/ VisCount("vis")
    \/ VisPitch("vis")
    \/ VisPool("vis")
    \/ VisVolume("vis")
    \/ VisPitch2("vis")
    \/ VisPool2("vis")
    \/ VisVolume2("vis")
    \/ \E i \in 1..MaxGestures : GesturePlay(i)
    \/ \E i \in 1..MaxGestures : GestureEndAll(i)

SpecVision == Init /\ [][NextVision]_vars

\* the audio loop and the UI thread in start_audio and _update_settings,
\* update_from_vision(self.last_hand_data) included; no backend call fails
NextMode ==
    \/ LoopTop
    \/ LoopSmoothGate
    \/ LoopBranch
    \/ StartClear
    \/ StartNoteOk
    \/ StartDone
    \/ UpdGuard
    \/ UpdBind
    \/ UpdNoteOk
    \/ UpdDone
    \/ StopGuard("loop")
    \/ StopBind("loop")
    \/ StopEndOk("loop")
    \/ StopEndDone("loop")
    \/ StopClearNotes("loop")
    \/ StopClearFlag("loop")
    \/ StopCc("loop")
    \/ StartAudio
    \/ StartAudioThread
    \/ \E st \in SettingsInputs : UpdateSettings(st)
    \/ SetOctave
    \/ SetRange
    \/ SetScale
    \/ SetPool
    \/ SetGlide
    \/ SetInstrument
    \/ SetVision
    \/ VisCount("ctl")
    \/ VisPitch("ctl")
    \/ VisVolume("ctl")
    \/ VisPitch2("ctl")
    \/ VisVolume2("ctl")

SpecMode == Init /\ [][NextMode]_vars

\* the UI thread in _update_settings and the main loop in update_from_vision
\* with frames of one hand, both statement by statement; the audio loop,
\* which reads no setting, is not running
NextSettings ==
    \/ \E st \in SettingsInputs : UpdateSettings(st)
    \/ SetOctave
    \/ SetRange
    \/ SetScale
    \/ SetPool
    \/ SetGlide
    \/ SetInstrument
    \/ SetVision
    \/ \E hand \in FrameHands : VisEnter(Frame(<<hand>>))
    \/ \E u \in Callers : VisCount(u)
    \/ \E u \in Callers : VisPitch(u)
    \/ VisPool("vis")
    \/ VisPoolRaises("vis")
    \/ \E u \in Callers : VisVolume(u)
    \/ VisPitch2("ctl")
    \/ VisVolume2("ctl")

SpecSettings == Init /\ [][NextSettings]_vars

\* --------------------------------------------------------------- SpecSeq
\* the hands of the frames fed in SpecSeq: one left of the playable region
\* and two inside it at the same x
SeqHands == {[x |-> 30, y |-> 75, fingers |-> <<40, 50, 42, 52>>],
             [x |-> 55, y |-> 90, fingers |-> <<40, 50, 42, 52>>],
             [x |-> 55, y |-> 75, fingers |-> <<40, 50, 42, 52>>]}

SeqFrames ==
    {NoFrame} \cup {Frame(<<a>>) : a \in SeqHands}
              \cup {Frame(<<a, b>>) : a \in SeqHands, b \in SeqHands}

\* the settings of SettingsInputs and one with a scale name that is not a
\* key of SCALES
SeqSettings ==
    SettingsInputs \cup
        {[start_key |-> 6200, octave_range |-> 1, scale |-> "unknown", glide_mode |-> FALSE]}

\* _update_settings and update_from_vision called one after the other, each
\* call running to its return before the next begins; the audio loop is not
\* running
NextSeq ==
    \/ pc["vis"] = "idle" /\ \E st \in SeqSettings : UpdateSettings(st)
    \/ SetOctave
    \/ SetRange
    \/ SetScale
    \/ SetPool
    \/ SetGlide
    \/ SetInstrument
    \/ SetVision
    \/ pc["ctl"] = "idle" /\ \E frame \in SeqFrames : VisEnter(frame)
    \/ \E u \in Callers : VisCount(u)
    \/ \E u \in Callers : VisPitch(u)
    \/ VisPool("vis")
    \/ \E u \in Callers : VisVolume(u)
    \/ \E u \in Callers : VisPitch2(u)
    \/ VisPool2("vis")
    \/ \E u \in Callers : VisVolume2(u)

SpecSeq == Init /\ [][NextSeq]_vars

\* --------------------------------------------------------------- SpecMap
\* the arguments _map_range is called with (hundredths)
MapValues == {-50, 0, 25, 50, 100, 150}
MapInBounds == {0, 50, 100}
MapOutBounds == {0, 100, 6000, 8400}

\* VelomaInstrument._map_range(value, in_min, in_max, out_min, out_max)
CallMapRange(value, in_min, in_max, out_min, out_max) ==
    /\ calc' = [fn |-> "map_range",
                args |-> <<value, in_min, in_max, out_min, out_max>>,
                raised |-> MapRangeCall(value, in_min, in_max, out_min, out_max).raised,
                value |-> MapRangeCall(value, in_min, in_max, out_min, out_max).value]
    /\ UNCHANGED <<demo, targets, currents, config, vision, gest, settings, book, backend,
                   ghost, tick, sweep, should_stop, audio_thread, pc, ret, fors, log>>

\* the static method called directly, with in_min <= in_max
NextMap ==
    \E value \in MapValues : \E in_min \in MapInBounds : \E in_max \in MapInBounds :
        \E out_min \in MapOutBounds : \E out_max \in MapOutBounds :
            in_min <= in_max /\ CallMapRange(value, in_min, in_max, out_min, out_max)

SpecMap == Init /\ [][NextMap]_vars

\* ============================================================== claims

LoopTickEnds == pc["loop"] # "sleep" /\ pc'["loop"] = "sleep"
BecomesSounding == ~is_note_playing /\ is_note_playing'
StopReturns == pc["ctl"] = "join" /\ pc'["ctl"] = "idle"
SendsCc(t) == Len(log'[t]) = Len(log[t]) + 1 /\ log'[t][Len(log'[t])].op = "cc"
Updates(notes, p, v) == [i \in 1..Len(notes) |-> UpdateCmd(notes[i], p, v)]

\* C1: once the latest start burst has issued a startNote, no voice of an
\* earlier burst is still sounding: two bursts are never issued without the
\* first burst's voices being ended in between.
C1_NoBurstOverUnendedVoices ==
    nextHandle > burstStart => \A h \in live : h >= burstStart

\* C2: once stop() has returned and the loop thread has ended, the controller
\* is Silent: no held voice, is_note_playing false, no voice left sounding.
C2_SilentAfterStop ==
    (should_stop /\ pc["ctl"] = "idle" /\ audio_thread = "dead")
        => (current_notes = <<>> /\ ~is_note_playing /\ live = {})

\* C3: at the moment stop() returns, no voice started by the engine is still
\* sounding, also when the join timed out.
C3_NoVoiceWhenStopReturns ==
    [][StopReturns => live' = {}]_vars

\* C4: a backend failure never ends the loop thread, and once the thread has
\* ended with the controller not Sounding, no voice of the latest burst is
\* left sounding.
C4_FailuresAreCaught ==
    /\ pc["loop"] # "crashed"
    /\ (audio_thread = "dead" /\ ~is_note_playing)
          => \A h \in live : h < burstStart

\* C5: a tick in which an updateNote failed ends Silent, with every voice the
\* tick found held ended.
C5_UpdateFailureForcesSilent ==
    [][(LoopTickEnds /\ updFailed')
          => (current_notes' = <<>> /\ ~is_note_playing'
              /\ SeqSet(held') \cap live' = {})]_vars

\* C6: after an endNote failed in a sweep, the except branch clears the
\* bookkeeping (the step that clears the flag leaves the held list empty and
\* is_note_playing false) and then issues end-all: it is the last command the
\* sweep sends, no endNote-failure sweep sends the sustain command, and no
\* voice is sounding once it is sent.
C6_EndFailureClearsAndEndsAll ==
    [][\A t \in Threads :
          /\ (pc[t] = "exc_clear_flag" /\ pc'[t] # "exc_clear_flag")
                => (current_notes' = <<>> /\ ~is_note_playing'
                    /\ pc'[t] = "exc_end_all")
          /\ (pc[t] = "exc_end_all" /\ pc'[t] # "exc_end_all")
                => (/\ log'[t] # <<>>
                    /\ log'[t][Len(log'[t])] = EndAllCmd
                    /\ live' = {})]_vars

C6_Witness ==
    /\ pc["loop"] = "sleep"
    /\ endFailed["loop"]
    /\ log["loop"] # <<>>
    /\ log["loop"][Len(log["loop"])] = EndAllCmd
    /\ current_notes = <<>> /\ ~is_note_playing

\* C7: the step that makes the controller Sounding ends a burst of exactly
\* num_amplified_notes startNote commands, each with the current pitch and
\* volume, taken while the gate held, and the held list is their handles.
C7_StartBurstIsExact ==
    [][BecomesSounding
          => (/\ should_play'
              /\ Len(current_notes') = num_amplified_notes
              /\ log'["loop"] = [i \in 1..num_amplified_notes |->
                    StartCmd(current_notes'[i], current_pitch', current_volume')]
              /\ \A i, j \in 1..num_amplified_notes :
                    current_notes'[i] = current_notes'[j] => i = j)]_vars

\* a second burst has just made the controller Sounding again
C7_Witness ==
    /\ pc["loop"] = "sleep" /\ branch = "start" /\ is_note_playing
    /\ burstStart > 1
    /\ Len(log["loop"]) = num_amplified_notes

\* C8: a tick that finds the controller Sounding with the gate false ends with
\* the held list empty, is_note_playing false and every voice that was held
\* ended (by its endNote, or by the end-all that replaces a failed sweep).
C8_GateFalseEndsEveryVoice ==
    [][(LoopTickEnds /\ branch' = "stop")
          => (/\ current_notes' = <<>> /\ ~is_note_playing'
              /\ SeqSet(held') \cap live' = {})]_vars

C10_SustainFollowsGlideState ==
    [][/\ BecomesSounding
            => \E i \in 1..Len(log'["loop"]) :
                  log'["loop"][i].op = "cc" /\ log'["loop"][i].v # 0
       /\ \A t \in Threads :
            SendsCc(t) => pc[t] \in {"start_call", "stop_cc"}]_vars

\* C10 amended: every sustain command sent is "off"; it is sent by a sweep
\* whose endNote calls all succeeded, by start_audio before it creates the
\* thread and by stop_audio after its sweep; a Silent to Sounding step comes
\* with no sustain command, and a sweep that fell back to end-all sent none.
C10_SustainOnlyOff ==
    [][/\ \A t \in Threads :
            SendsCc(t)
               => (/\ log'[t][Len(log'[t])] = CcCmd(0)
                   /\ \/ pc[t] = "stop_cc" /\ ~endFailed[t]
                      \/ t = "ctl" /\ pc[t] = "idle" /\ audio_thread # "alive"
                      \/ t = "ctl" /\ pc[t] = "ctl_cc")
       /\ BecomesSounding => Ops("loop", "cc")' = {}
       /\ \A t \in Threads :
            (pc[t] = "stop_clear_flag" /\ pc'[t] # "stop_clear_flag")
               => pc'[t] = "stop_cc"
       /\ \A t \in Threads :
            (pc[t] = "exc_end_all" /\ pc'[t] # "exc_end_all")
               => Ops(t, "cc")' = {}]_vars

\* a gate-false tick has just ended the voices and released the pedal
C10_Witness ==
    /\ pc["loop"] = "sleep" /\ branch = "stop" /\ ~endFailed["loop"]
    /\ ~is_note_playing
    /\ Len(log["loop"]) = num_amplified_notes + 1
    /\ log["loop"][Len(log["loop"])] = CcCmd(0)

\* C11: start_audio goes on to create a thread only when no loop thread is
\* alive, and a thread becomes alive only when the loop is not running: a call
\* made while the loop runs changes nothing, and there is never a second loop.
C11_StartIsIdempotent ==
    [][/\ pc'["ctl"] = "start_thread" => audio_thread # "alive"
       /\ (audio_thread # "alive" /\ audio_thread' = "alive")
             => pc["loop"] \in {"idle", "exited", "crashed"}
       /\ (audio_thread = "alive" /\ pc["ctl"] = "idle" /\ pc'["ctl"] = "idle")
             => (should_stop' = should_stop /\ log'["ctl"] = log["ctl"])]_vars

\* a loop is running that was created after an earlier one had ended
C11_Witness ==
    /\ audio_thread = "alive" /\ pc["loop"] = "top" /\ pc["ctl"] = "idle"
    /\ ~should_stop /\ nextHandle > 1

\* the model follows no more handles: the loop cannot begin another burst
OutOfHandles ==
    pc["loop"] = "start_clear" /\ nextHandle + num_amplified_notes - 1 > MaxHandles

\* C12: once should_stop is set while the loop thread is alive, the thread
\* ends, whatever frames arrive and whatever the caller does meanwhile.
C12_StopLeadsToExit ==
    (should_stop /\ audio_thread = "alive") ~> (audio_thread # "alive" \/ OutOfHandles)

\* stop_audio has set the flag and the loop thread has ended by returning
C12_Witness ==
    should_stop /\ audio_thread = "dead" /\ pc["loop"] = "exited"

\* C13: while the mode is Discrete (glide_mode false) no voice handle is held,
\* the controller is not Sounding and no thread has sent a start, update or
\* end command.
C13_DiscreteHasNoSustain ==
    ~glide_mode
       => (/\ current_notes = <<>> /\ ~is_note_playing
           /\ \A t \in Threads :
                 Ops(t, "start") \cup Ops(t, "update") \cup Ops(t, "end") = {})

\* a Discrete tick of the loop has ended with the gate holding and the pitch
\* hand inside the playable region (a pitch above the lowest pool entry is
\* only ever the target of a hand right of 0.5)
DiscreteGateTick ==
    /\ LoopTickEnds
    /\ ~glide_mode'
    /\ should_play'
    /\ current_pitch' > pitch_pool'[1]

\* C14: no momentary note is ever played before such a tick (lastNoteIndex is
\* unset and no fire time is recorded), so the fire condition holds on it and
\* the tick has sent playMomentaryNote with the pool pitch and the volume.
C14_DiscreteFiresOnNewNote ==
    [][DiscreteGateTick
          => PlayCmd(current_pitch', current_volume') \in SeqSet(log'["loop"])]_vars

\* C15: a Discrete tick with the gate holding and the hand inside the region
\* that follows a tick with the gate false, after the gate had held earlier
\* (voices were started then), finds lastNoteIndex reset and so fires its
\* note, also when it is the note played before the gate fell.
C15_GateFalseResetsLastNote ==
    [][(DiscreteGateTick /\ ~gate_before' /\ burstStart' > 1)
          => Ops("loop", "play")' # {}]_vars

\* C16: a mode switch begun while the controller is Sounding has brought it
\* to Silent before the new mode takes effect: at the step that assigns a new
\* value to glide_mode the playing flag is down
C16_ModeSwitchWhenSilent ==
    [][glide_mode' # glide_mode => ~is_note_playing]_vars

\* a step of update_from_vision on the main loop thread
UpdateStep == pc'["vis"] # pc["vis"] \/ hands_detected' # hands_detected

\* C17: a step of update_from_vision leaves current_pitch, current_volume,
\* current_notes and is_note_playing alone and sends no command, and nothing
\* it forks sends a command to the backend or ends a voice: voices end only
\* by a command of the loop or of the caller of start_audio and stop_audio
C17_UpdateWritesTargetsOnly ==
    [][/\ UpdateStep => UNCHANGED <<currents, book, backend, log>>
       /\ log'["gest"] = log["gest"]
       /\ live' # live => \E t \in Threads : log'[t] # log[t]]_vars

\* the loop reads target_pitch and target_volume (lines 241-250)
LoopReadsTargets == pc["loop"] = "smooth" /\ pc'["loop"] = "branch"

\* C18: when the loop reads the targets while a two-hand frame is being
\* processed, a target already written for that frame holds the frame's final
\* value: the pitch of the right hand, the volume of the left hand, never a
\* value derived from the other hand
C18_LoopReadsWholeFrames ==
    [][LoopReadsTargets =>
          /\ "pitch" \in interim
                => target_pitch = PitchFor(RightHand(hand_data["vis"]).x)
          /\ "volume" \in interim
                => target_volume = VolumeFor(LeftHand(hand_data["vis"]).y)]_vars

\* update_from_vision on the main loop thread reads pitch_range or pitch_pool
\* (lines 192, 195, 197)
UpdateReadsConfig ==
    pc["vis"] \in {"v_pitch", "v_volume_pool"} /\ pc'["vis"] # pc["vis"]

\* C19: when the update path reads the pitch pool or the pitch range, the
\* pool is the one generated from the start_key, octave_range and scale_name
\* in force and the range is the one of that start_key and octave_range
C19_ReadersSeeWholeConfig ==
    [][UpdateReadsConfig =>
          /\ pitch_pool = GeneratePitchPool(scale_name)
          /\ pitch_range = <<start_key, start_key + octave_range * 12 * Unit>>]_vars

\* the hand_data without hands: None, no "hands" entry, an empty list
NoDataFrames == {NoFrame, NoHandsKey, Frame(<<>>)}

\* C20: in every state in which the main loop can call update_from_vision, a
\* call without hand data is carried out (it raises nothing and returns), and
\* every outcome of it has hands_detected False, target_pitch and
\* target_volume as before and the caller back in the main loop
C20_NoHandsFreezesTargets ==
    \A frame \in NoDataFrames :
        pc["vis"] = "idle" =>
            /\ ENABLED VisEnter(frame)
            /\ ~ENABLED (/\ VisEnter(frame)
                         /\ ~(/\ hands_detected' = FALSE
                              /\ UNCHANGED <<target_pitch, target_volume>>
                              /\ pc'["vis"] = "idle"))

\* the hands are gone after a two-hand frame set both targets, with the
\* voices still held
C20_Witness ==
    /\ ~hands_detected
    /\ pc["vis"] = "idle"
    /\ target_pitch = 6500
    /\ target_volume = 50
    /\ is_note_playing

\* C21: once the controller is Sounding with hands_detected False, either a
\* frame with hands arrives or the controller becomes Silent (flag down, held
\* list empty) with every voice that was held ended
C21_NoHandsLeadsToSilent ==
    \A h \in 1..MaxHandles :
        (is_note_playing /\ ~hands_detected /\ h \in SeqSet(current_notes))
            ~> (\/ hands_detected
                \/ (~is_note_playing /\ current_notes = <<>> /\ h \notin live))

\* update_from_vision called by u returns after the last statement of a frame
\* with hands
FrameDone(u) == pc[u] \in {"v_volume", "v_volume2"} /\ pc'[u] = "idle"

\* C22: when update_from_vision returns from a frame of two hands with
\* different palm x, target_pitch is the pitch of the larger x and
\* target_volume the volume of the y of the hand with the smaller x, whatever
\* the order of the two hands in the list and whatever the targets were
C22_RolesByLargerX ==
    [][\A u \in Callers :
          (FrameDone(u) /\ Len(hand_data[u]) = 2
                        /\ hand_data[u][1].x # hand_data[u][2].x)
          => \E hi \in SeqSet(hand_data[u]) : \E lo \in SeqSet(hand_data[u]) :
                /\ hi.x > lo.x
                /\ target_pitch' = PitchFor(hi.x)
                /\ target_volume' = VolumeFor(lo.y)]_vars

\* a frame whose first hand is the right one is about to return in glide
\* mode, its pitch written from that first hand
C22_Witness ==
    /\ pc["vis"] = "v_volume2"
    /\ glide_mode
    /\ hand_data["vis"][1].x > hand_data["vis"][2].x
    /\ target_pitch = MapRange(hand_data["vis"][1].x, 50, Unit, pitch_range[1], pitch_range[2])
    /\ target_pitch # pitch_range[1]

\* C23: when update_from_vision returns from a frame of two hands with equal
\* palm x, the first hand of the list was the pitch hand and the second the
\* volume hand: target_pitch is the pitch of the first hand's x and
\* target_volume the volume of the second hand's y
C23_TieFirstHandIsPitchHand ==
    [][(FrameDone("vis") /\ Len(hand_data["vis"]) = 2
                         /\ hand_data["vis"][1].x = hand_data["vis"][2].x)
          => /\ target_pitch' = PitchFor(hand_data["vis"][1].x)
             /\ target_volume' = VolumeFor(hand_data["vis"][2].y)]_vars

\* the left edge of the playable region: in_min of the pitch mapping
\* (lines 195, 223)
RegionStart == 50
\* and its right edge, in_max of the mapping
RegionEnd == 100

\* update_from_vision on the main loop thread writes target_pitch
PitchWritten ==
    /\ pc["vis"] \in {"v_pitch", "v_volume_pool", "v_pitch2", "v_volume2_pool"}
    /\ pc'["vis"] \in {"v_volume", "v_volume2"}

\* the hand whose x is the pitch source of the statement about to run
PitchSource ==
    IF pc["vis"] \in {"v_pitch", "v_volume_pool"}
      THEN hand_data["vis"][1]
      ELSE RightHand(hand_data["vis"])

\* C24: in Discrete mode a pitch source left of the playable region gives no
\* note: the statement that would write target_pitch leaves it as it was
C24_LeftOfRegionKeepsPitch ==
    [][(PitchWritten /\ ~glide_mode /\ PitchSource.x < RegionStart)
          => target_pitch' = target_pitch]_vars

\* floor((clampedPos - regionStart) / blockWidth) with blockWidth =
\* (regionEnd - regionStart) / poolSize, clamped to [0, poolSize - 1]
BlockIndex(x, poolSize) ==
    LET clamped == Max(RegionStart, Min(RegionEnd, x))
    IN  Max(0, Min(poolSize - 1,
                   ((clamped - RegionStart) * poolSize) \div (RegionEnd - RegionStart)))

\* update_from_vision on the main loop thread computes mapped_index
IndexComputed ==
    /\ pc["vis"] \in {"v_pitch", "v_pitch2"}
    /\ pc'["vis"] \in {"v_volume_pool", "v_volume2_pool"}

\* C25: in Discrete mode the index computed for a pitch source inside the
\* playable region is the number of the block it lies in, the region being
\* cut into len(pitch_pool) blocks of equal width, and is a valid pool index
C25_IndexIsBlockNumber ==
    [][(IndexComputed /\ PitchSource.x >= RegionStart)
          => /\ mapped_index'["vis"] = BlockIndex(PitchSource.x, Len(pitch_pool))
             /\ mapped_index'["vis"] \in 0..(Len(pitch_pool) - 1)]_vars

\* C26: between calls of _update_settings the pitch pool is non-empty and
\* strictly ascending, every entry lies in [start_key, start_key + 12 *
\* octave_range] for the current start_key and octave_range, and for the
\* chromatic scale it is exactly start_key + i for i = 0..12 * octave_range
C26_PoolWellFormed ==
    pc["ctl"] = "idle" =>
        /\ Len(pitch_pool) > 0
        /\ \A i \in 1..(Len(pitch_pool) - 1) : pitch_pool[i] < pitch_pool[i + 1]
        /\ \A i \in 1..Len(pitch_pool) :
              /\ pitch_pool[i] >= start_key
              /\ pitch_pool[i] <= start_key + 12 * octave_range * Unit
        /\ scale_name = "chromatic" =>
              pitch_pool = [i \in 1..(12 * octave_range + 1) |-> start_key + (i - 1) * Unit]

\* set_scale is called with a name that is not in SCALES and returns
UnknownScaleCall ==
    /\ pc["ctl"] = "set_scale"
    /\ pc'["ctl"] # "set_scale"
    /\ settings.scale \notin SCALES

\* C27: set_scale with a name that is not in SCALES returns to its caller
\* with scale_name and pitch_pool as they were, and no statement of the rest
\* of _update_settings writes them
C27_UnknownScaleIgnored ==
    [][/\ UnknownScaleCall
          => (pc'["ctl"] = "set_glide" /\ UNCHANGED <<scale_name, pitch_pool>>)
       /\ (pc["ctl"] \in {"set_glide", "set_instrument"}
            /\ settings # <<>> /\ settings.scale \notin SCALES)
          => UNCHANGED <<scale_name, pitch_pool>>]_vars

\* _update_settings has returned from set_scale("unknown") with the chromatic
\* scale of an earlier call still in force
C27_Witness ==
    /\ pc["ctl"] = "set_glide"
    /\ settings.scale \notin SCALES
    /\ scale_name = "chromatic"
    /\ Len(pitch_pool) = 25

C29_MapRangeEmptyInput ==
    (calc.fn = "map_range" /\ calc.args[2] = calc.args[3]) =>
        (~calc.raised /\ calc.value = calc.args[4])

Issues(t, o, h) ==
    /\ Len(log'[t]) = Len(log[t]) + 1
    /\ log'[t][Len(log'[t])].op = o
    /\ log'[t][Len(log'[t])].h = h

\* handle h has received note.end() in a call or tick that is still recorded
EndedByEnd(h) == \E u \in DOMAIN log : \E i \in 1..Len(log[u]) : log[u][i] = EndCmd(h)

\* C31: a handle that has received note.end() gets no later change_pitch /
\* change_volume and no second end(), also while stop_audio sweeps the held
\* notes on the caller's thread and the audio loop updates or stops them
C31_NoUseAfterEnd ==
    [][\A t \in Threads : \A h \in 1..(MaxHandles + 1) :
          (Issues(t, "update", h) \/ Issues(t, "end", h)) => ~EndedByEnd(h)]_vars

\* ------------------------------------------------ bookkeeping at ticks
\* the audio loop is between two ticks (time.sleep at the end of the body)
TickBoundary == pc["loop"] = "sleep"

\* C32: at every tick boundary of the audio loop is_note_playing is true
\* exactly when current_notes is non-empty, and when it is true the list
\* holds num_amplified_notes handles, each started and not ended
C32_BookkeepingAtTick ==
    TickBoundary =>
        /\ is_note_playing <=> (current_notes # <<>>)
        /\ is_note_playing =>
              /\ Len(current_notes) = num_amplified_notes
              /\ SeqSet(current_notes) \subseteq live

\* ------------------------------------------------------- pool indexing
\* caller u has computed mapped_index and is about to read self.pitch_pool
\* at that index (lines 197, 225)
AboutToIndex(u) == pc[u] \in {"v_volume_pool", "v_volume2_pool"}

\* C33: in Discrete mode the index update_from_vision has computed from
\* len(self.pitch_pool) is a valid index of the pool it then reads, also when
\* set_scale has replaced the pool between the two reads
C33_IndexWithinPool ==
    \A u \in Callers : AboutToIndex(u) =>
        (mapped_index[u] >= 0 /\ mapped_index[u] + 1 <= Len(pitch_pool))

\* ------------------------------------------------- start_audio returns
\* start_audio has returned with a loop thread alive: either it has started
\* the thread (line 122) or, called in this state, it returns at line 116
\* without a write
StartReturned == pc["ctl"] = "idle" /\ audio_thread = "alive"

\* the loop thread ends in this step
LoopEnds == audio_thread = "alive" /\ audio_thread' # "alive"

\* C34: whenever start_audio returns, a loop is running with should_stop
\* cleared, and the loop goes on running until stop_audio is called: it ends
\* only with should_stop set; also when start_audio is called after a
\* stop_audio whose join(timeout=1.0) returned with the old thread still alive
C34_StartLeavesLoopRunning ==
    /\ [](StartReturned => ~should_stop)
    /\ [][LoopEnds => should_stop]_vars

\* ------------------------------------------- the demo loop (demo.py)
\* the results the tracker's callback delivers: a dict whose "hands" is
\* empty, or holds one hand
DemoResults == {Frame(<<>>)} \cup {Frame(<<a>>) : a \in FrameHands}

\* the instrument's state apart from the targets: the demo loop leaves it
DemoLeaves == <<calc, currents, config, vision, gest, settings, book, backend, ghost,
                tick, sweep, should_stop, audio_thread, pc, ret, fors, log>>

\* time passes
DemoClock ==
    /\ demo.clock < Epoch + MaxTicks
    /\ demo' = [demo EXCEPT !.clock = @ + 1]
    /\ UNCHANGED <<targets, DemoLeaves>>

\* _on_hand_data, line 34: self.last_hand_data = hand_data (tracker thread)
OnHandData(r) ==
    /\ demo.cb = "idle"
    /\ demo' = [demo EXCEPT !.last_hand_data = r,
                            !.cb = "time",
                            !.with_hands = IF NoHandData(r) THEN @ ELSE r,
                            !.with_hands_time = IF NoHandData(r) THEN @ ELSE demo.clock]
    /\ UNCHANGED <<targets, DemoLeaves>>

\* _on_hand_data, line 35: self.last_hand_time = time.time()
OnHandDataTime ==
    /\ demo.cb = "time"
    /\ demo' = [demo EXCEPT !.last_hand_time = demo.clock, !.cb = "idle"]
    /\ UNCHANGED <<targets, DemoLeaves>>

\* run, lines 69-70: now = time.time(); hand_data = self.last_hand_data
DemoRead ==
    /\ demo.pc = "read"
    /\ demo' = [demo EXCEPT !.now = demo.clock,
                            !.hand_data = demo.last_hand_data,
                            !.pc = "choose"]
    /\ UNCHANGED <<targets, DemoLeaves>>

\* run, lines 72-79, up to the test of line 76
DemoChoose ==
    /\ demo.pc = "choose"
    /\ demo' =
         IF ~NoHandData(demo.hand_data)
           THEN [demo EXCEPT !.use_hand_data = demo.hand_data, !.pc = "update"]
           ELSE IF /\ demo.last_hand_data.present
                   /\ demo.now - demo.last_hand_time < hand_hold_timeout
                  THEN [demo EXCEPT !.pc = "use_cached"]
                  ELSE [demo EXCEPT !.use_hand_data = NoFrame, !.pc = "update"]
    /\ UNCHANGED <<targets, DemoLeaves>>

\* run, line 77: use_hand_data = self.last_hand_data
DemoUseCached ==
    /\ demo.pc = "use_cached"
    /\ demo' = [demo EXCEPT !.use_hand_data = demo.last_hand_data, !.pc = "update"]
    /\ UNCHANGED <<targets, DemoLeaves>>

\* the hands of the frame the loop passes to update_from_vision, lines 81-94
DemoArgument ==
    IF demo.use_hand_data.present /\ demo.audio_enabled
      THEN demo.use_hand_data.hands
      ELSE <<>>

\* run, lines 81-94: the call of self.instrument.update_from_vision
DemoUpdate ==
    /\ demo.pc = "update"
    /\ VisionTargets(DemoArgument)
    /\ demo' = [demo EXCEPT !.pc = "key"]
    /\ UNCHANGED DemoLeaves

\* run, lines 97-103: cv2.waitKey(1); the space bar toggles audio_enabled
DemoKey(space) ==
    /\ demo.pc = "key"
    /\ demo' = [demo EXCEPT !.audio_enabled = IF space THEN ~@ ELSE @,
                            !.pc = "read"]
    /\ UNCHANGED <<targets, DemoLeaves>>

NextDemo ==
    \/ DemoClock
    \/ \E r \in DemoResults : OnHandData(r)
    \/ OnHandDataTime
    \/ DemoRead
    \/ DemoChoose
    \/ DemoUseCached
    \/ DemoUpdate
    \/ \E space \in BOOLEAN : DemoKey(space)

SpecDemo == Init /\ [][NextDemo]_vars

\* the loop has chosen use_hand_data for a latest result without hands, no
\* newer result has arrived since, and audio is enabled
DropoutChosen ==
    /\ demo.pc = "update" /\ demo.cb = "idle" /\ demo.audio_enabled
    /\ demo.hand_data.present /\ NoHandData(demo.hand_data)
    /\ demo.last_hand_data = demo.hand_data
    /\ demo.with_hands.present

\* C35: in the demo loop, when the latest tracker result has no hands and a
\* result with hands was received less than hand_hold_timeout before, the
\* instrument is updated with that last result with hands; once the timeout
\* has passed it is given a frame without hands
C35_HoldThroughDropout ==
    DropoutChosen =>
        IF demo.now - demo.with_hands_time < hand_hold_timeout
          THEN DemoArgument = demo.with_hands.hands
          ELSE DemoArgument = <<>>
====
